---- MODULE Spec2Model ----
(***************************************************************************)
(* Model of the cluster coordinator (src/cluster/coordinator.py).          *)
(*                                                                         *)
(* The coordinator is one asyncio process: every handler and background    *)
(* task runs atomically between two suspension points (await of network   *)
(* I/O, of a sleep, or of a queue wait that finds the queue empty).  One   *)
(* action of the model is one such atomic segment.  Job records are Python *)
(* dict objects shared by reference between active_jobs, completed_jobs    *)
(* and the queues: the model keeps them in a heap `jobs` addressed by a    *)
(* handle (the order of submission) and the maps and queues hold handles.  *)
(*                                                                         *)
(* Time is the reading of time.time() in milliseconds.  Sleeps and timed   *)
(* waits are lower bounds on the time a task stays suspended.              *)
(***************************************************************************)
EXTENDS Integers, Sequences, FiniteSets, TLC

VARIABLES
    clock,              \* reading of time.time(), in ms, to the precision of a step
    msec,               \* milliseconds past clock at the last int(time.time() * 1000)
    nodes,              \* self.nodes: node id -> node record
    node_order,         \* insertion order of self.nodes (dict order)
    jobs,               \* heap of job dicts, indexed by handle
    active_jobs,        \* self.active_jobs: job id -> handle
    completed_jobs,     \* self.completed_jobs: job id -> handle
    priority_queue,     \* self.priority_queue
    collatz_queue,      \* self.collatz_queue
    thread_queue,       \* self.thread_queue
    stats,              \* self.stats
    websocket_clients,  \* self.websocket_clients
    bc,                 \* broadcast_update calls in progress, one per caller
    disp,               \* position of the assign_jobs task
    mon,                \* position of the monitor_nodes task
    cleanup_wake,       \* what is left of the sleep of cleanup_old_jobs, in ms
    assignLog,          \* history: handles in the order assign_job_to_node took them
    putBack,            \* history: handles put back for lack of an online node
    evicted,            \* history: handles of the records cleanup_old_jobs deleted
    step,               \* precision of clock, in ms; fixed by the initial state
    reply               \* the response the last step sent to a heartbeat request

vars == <<clock, msec, nodes, node_order, jobs, active_jobs, completed_jobs,
          priority_queue, collatz_queue, thread_queue, stats,
          websocket_clients, bc, disp, mon, cleanup_wake,
          assignLog, putBack, evicted, step, reply>>

-----------------------------------------------------------------------------
(* Bounds of the exploration *)

MaxJobs == 1            \* jobs submitted, specification Spec
MaxPipelineJobs == 2    \* jobs submitted, specification SpecJobs
MaxBurstJobs == 3       \* jobs submitted, specification SpecBurst
MaxNodes == 1           \* node ids that register
MaxClients == 2         \* websocket clients that connect
MaxAdvance == 1         \* steps of the clock
MaxMsec == 1            \* milliseconds that pass between two steps of the clock
MaxBroadcasts == 1      \* broadcasts suspended at the same time
MaxFleet == 2           \* node ids that register, specifications SpecMon and SpecSelect
MaxElapse == 5          \* steps of the clock, specification SpecMon
MaxSweeps == 14         \* steps of the clock, specification SpecSweep

NodeIds == 1..MaxNodes
FleetIds == 1..MaxFleet
WsIds == 1..MaxClients

(* Inputs *)
JobKinds == {<<"thread", "normal", TRUE>>, <<"collatz", "normal", FALSE>>,
             <<"thread", "high", TRUE>>}     \* type, priority, gpu_preferred
LoadScores == {0}
FleetLoads == {0, 1}
HttpStatuses == {200, 500}
WideStatuses == {200, 201, 204, 404, 500}

(* Program constants, in seconds as the source writes them *)
timeout_threshold == 60
retention == 3600
monitor_sleep == 30
monitor_recovery_sleep == 60
cleanup_sleep == 300
poll_sleep == 1
backoff_sleep == 5
recovery_sleep == 1
rpc_timeout == 300

Ms(seconds) == seconds * 1000

(* precision of clock, in ms: one step passes the liveness timeout and the *)
(* retention                                                                *)
ClockStep == 2 * Ms(retention)
QueueWaitMs == 100      \* timeout=0.1 of the three wait_for calls

(* A sleep or timed wait is a lower bound on the suspension.  One shorter  *)
(* than the precision of the clock cannot be told from no wait at all.     *)
Timer(ms) == IF ms < step THEN 0 ELSE ms

None == 0               \* Python None for a node id / no handle
NoTime == -1            \* key absent from the job dict

(* web.json_response(body, status=...): 200 when no status is given *)
json_response(body, status) == [status |-> status, body |-> body]

(* the heartbeat request a step answers (its node_id) and the response sent *)
Answer(node_id, response) == [node_id |-> node_id, response |-> response]

NoReply == Answer(None, json_response("none", 0))  \* no heartbeat answered

(* an error text: the message and the number formatted into it *)
ErrorText(message, number) == <<message, number>>

NoError == ErrorText("", 0)     \* key 'error' absent from the job dict

(* str(e) of the exception caught at line 225 *)
Str(e) == ErrorText(e, 0)

-----------------------------------------------------------------------------
(* Helpers *)

Range(s) == {s[i] : i \in 1..Len(s)}

IndexOf(s, x) == CHOOSE i \in 1..Len(s) : s[i] = x

Put(f, k, v) == [x \in (DOMAIN f) \cup {k} |-> IF x = k THEN v ELSE f[x]]

Del(f, ks) == [x \in (DOMAIN f) \ ks |-> f[x]]

RECURSIVE Gcd(_, _)
Gcd(a, b) == IF b = 0 THEN a ELSE Gcd(b, a % b)

Rat(n, d) == LET g == Gcd(n, d) IN IF g = 0 THEN [num |-> 0, den |-> 1]
                                   ELSE [num |-> n \div g, den |-> d \div g]

(* number of clock advances that produce the reading c *)
Advances(c) == c \div step

(* what is left of a sleep or timed wait after d more milliseconds *)
Left(t, d) == IF t <= d THEN 0 ELSE t - d

OnlineCount(ns) == Cardinality({n \in DOMAIN ns : ns[n].status = "online"})

-----------------------------------------------------------------------------
(* asyncio.Queue: put appends, get takes the head *)

queue_put_lifo(q, h) == <<h>> \o q

queue_put(q, h) == Append(q, h)

(* submit_job / assign_jobs: the queue a job belongs to *)
QueueClass(job) ==
    IF job.priority = "high" THEN "priority"
    ELSE IF job.type = "collatz" THEN "collatz"
    ELSE "thread"

(* submit_job: job_id = f"job_{int(time.time() * 1000)}_{len(self.active_jobs)}" *)
JobId(now, active) == <<now, Cardinality(DOMAIN active)>>

NewJob(id, type, priority, gpu_preferred, now) ==
    [id |-> id, type |-> type, priority |-> priority,
     submitted_at |-> now, status |-> "queued", assigned_node |-> None,
     gpu_preferred |-> gpu_preferred,
     assigned_at |-> NoTime, completed_at |-> NoTime, failed_at |-> NoTime,
     execution_time |-> NoTime, result |-> FALSE, error |-> NoError]

NewNode(id, gpu_enabled, now) ==
    [id |-> id, gpu_enabled |-> gpu_enabled, status |-> "online",
     last_heartbeat |-> now, jobs_completed |-> 0,
     average_job_time |-> Rat(0, 1), load_score |-> 0]

-----------------------------------------------------------------------------
(* select_best_node *)

StableMin(cand, ns) ==
    cand[CHOOSE i \in 1..Len(cand) :
            /\ \A j \in 1..Len(cand) : ns[cand[i]].load_score <= ns[cand[j]].load_score
            /\ \A j \in 1..(i-1) : ns[cand[j]].load_score > ns[cand[i]].load_score]

select_best_node_nogpu(job, ns, order) ==
    LET available == SelectSeq(order, LAMBDA n : ns[n].status = "online")
    IN  IF available = <<>> THEN None ELSE StableMin(available, ns)

select_best_node(job, ns, order) ==
    LET available == SelectSeq(order, LAMBDA n : ns[n].status = "online")
        gpu_nodes == SelectSeq(available, LAMBDA n : ns[n].gpu_enabled)
        cand == IF job.gpu_preferred /\ gpu_nodes # <<>> THEN gpu_nodes ELSE available
    IN  IF available = <<>> THEN None ELSE StableMin(cand, ns)

-----------------------------------------------------------------------------
(* The job store and node registry as one value, so that the handlers can   *)
(* be chained inside one atomic segment.                                    *)

Store == [jobs |-> jobs, active |-> active_jobs, completed |-> completed_jobs,
          nodes |-> nodes, stats |-> stats]

(* handle_job_completion, lines 240-248: node statistics *)
NodeAfterCompletion(node, execution_time) ==
    LET k == node.jobs_completed + 1
        a == node.average_job_time
    IN  [node EXCEPT !.jobs_completed = k,
                     !.average_job_time =
                         Rat(a.num * (k - 1) + execution_time * a.den, a.den * k)]

(* handle_job_completion, lines 250-255: global statistics *)
StatsAfterCompletion_noelse(st, job, ns) ==
    LET t == [st EXCEPT !.total_calculations = @ + 1]
    IN  IF job.gpu_preferred /\ ns[job.assigned_node].gpu_enabled
        THEN [t EXCEPT !.gpu_calculations = @ + 1]
        ELSE IF ~job.gpu_preferred THEN [t EXCEPT !.cpu_calculations = @ + 1]
        ELSE t

StatsAfterCompletion(st, job, ns) ==
    LET t == [st EXCEPT !.total_calculations = @ + 1]
    IN  IF job.gpu_preferred /\ ns[job.assigned_node].gpu_enabled
        THEN [t EXCEPT !.gpu_calculations = @ + 1]
        ELSE [t EXCEPT !.cpu_calculations = @ + 1]

(* handle_job_completion up to the broadcast.  outcome:                     *)
(*   "noop"      job_id not in active_jobs                                  *)
(*   "keyerror"  job['assigned_at'] raised KeyError at line 236             *)
(*   "done"      record moved and statistics updated; broadcast follows     *)
handle_job_completion(S, job_id, now) ==
    IF job_id \notin DOMAIN S.active
    THEN [store |-> S, outcome |-> "noop"]
    ELSE
      LET h  == S.active[job_id]
          a1 == Del(S.active, {job_id})
          j1 == [S.jobs[h] EXCEPT !.status = "completed",
                                  !.completed_at = now,
                                  !.result = TRUE]
      IN  IF j1.assigned_at = NoTime
          THEN [store |-> [S EXCEPT !.active = a1, !.jobs[h] = j1],
                outcome |-> "keyerror"]
          ELSE
            LET j2 == [j1 EXCEPT !.execution_time = now - j1.assigned_at]
                c1 == Put(S.completed, job_id, h)
                n  == j2.assigned_node
                ns == IF n \in DOMAIN S.nodes
                      THEN [S.nodes EXCEPT ![n] = NodeAfterCompletion(@, j2.execution_time)]
                      ELSE S.nodes
            IN  [store |-> [jobs |-> [S.jobs EXCEPT ![h] = j2], active |-> a1,
                            completed |-> c1, nodes |-> ns,
                            stats |-> StatsAfterCompletion(S.stats, j2, ns)],
                 outcome |-> "done"]

(* handle_job_failure up to the broadcast.  outcome "noop" or "done" *)
handle_job_failure_unmarked(S, job_id, error, now) ==
    IF job_id \notin DOMAIN S.active
    THEN [store |-> S, outcome |-> "noop"]
    ELSE [store |-> S, outcome |-> "done"]

handle_job_failure(S, job_id, error, now) ==
    IF job_id \notin DOMAIN S.active
    THEN [store |-> S, outcome |-> "noop"]
    ELSE LET h == S.active[job_id]
         IN  [store |-> [S EXCEPT !.jobs[h] = [@ EXCEPT !.status = "failed",
                                                        !.error = error,
                                                        !.failed_at = now]],
              outcome |-> "done"]

SetStore(S) ==
    /\ jobs' = S.jobs
    /\ active_jobs' = S.active
    /\ completed_jobs' = S.completed
    /\ nodes' = S.nodes
    /\ stats' = S.stats

-----------------------------------------------------------------------------
(* The three queues as one value *)

Queues == [priority |-> priority_queue, collatz |-> collatz_queue,
           thread |-> thread_queue]

SetQueues(Q) ==
    /\ priority_queue' = Q.priority
    /\ collatz_queue' = Q.collatz
    /\ thread_queue' = Q.thread

-----------------------------------------------------------------------------
(* broadcast_update.  The for loop over self.websocket_clients suspends in  *)
(* every send_str; the set iterator raises RuntimeError at its next step    *)
(* when the size of the set differs from the size at the start of the loop. *)
(* The caller's atomic segment runs up to the first send.                   *)

Callers == {"reg", "disp", "mon"}

(* the message of a broadcast: its 'type' and the node or job it is about *)
Event(type, subject) == [type |-> type, subject |-> subject]

NoEvent == Event("none", None)

(* since: history, the clients connected without a break since the loop    *)
(* started                                                                  *)
BcIdle == [on |-> FALSE, visited |-> {}, size0 |-> 0, disconnected |-> {},
           event |-> NoEvent, since |-> {}]

(* first client the loop sends to, and whether that send succeeds *)
FirstSends(clients) ==
    IF clients = {} THEN {<<None, TRUE>>} ELSE clients \X BOOLEAN

(* exploration bound on the broadcasts suspended at the same time *)
BcRoom == Cardinality({c \in Callers : bc[c].on}) < MaxBroadcasts

BcBegin(c, clients, first, event) ==
    IF clients = {} THEN [bc EXCEPT ![c] = BcIdle]
    ELSE [bc EXCEPT ![c] = [on |-> TRUE, visited |-> {first[1]},
                            size0 |-> Cardinality(clients),
                            disconnected |-> IF first[2] THEN {} ELSE {first[1]},
                            event |-> event, since |-> clients]]

BcSizeChanged(c) == Cardinality(websocket_clients) # bc[c].size0

BcExhausted(c) == websocket_clients \subseteq bc[c].visited

(* one further iteration of the loop: send to the next client *)
BcSend(c, ws, ok) ==
    /\ bc[c].on
    /\ ~BcSizeChanged(c)
    /\ ws \in websocket_clients \ bc[c].visited
    /\ bc' = [bc EXCEPT ![c].visited = @ \cup {ws},
                        ![c].disconnected = IF ok THEN @ ELSE @ \cup {ws}]
    /\ UNCHANGED <<clock, msec, nodes, node_order, jobs, active_jobs, completed_jobs,
                   priority_queue, collatz_queue, thread_queue, stats,
                   websocket_clients, disp, mon, cleanup_wake,
                   assignLog, putBack, evicted, step>>
    /\ reply' = NoReply

-----------------------------------------------------------------------------
(* Frontend handlers *)

register_node(n, gpu_enabled, first) ==
    /\ ~bc["reg"].on
    /\ websocket_clients # {} => BcRoom
    /\ nodes' = Put(nodes, n, NewNode(n, gpu_enabled, clock))
    /\ node_order' = IF n \in DOMAIN nodes THEN node_order ELSE Append(node_order, n)
    /\ stats' = [stats EXCEPT !.nodes_online = OnlineCount(nodes')]
    /\ bc' = BcBegin("reg", websocket_clients, first, Event("node_registered", n))
    /\ UNCHANGED <<clock, msec, jobs, active_jobs, completed_jobs,
                   priority_queue, collatz_queue, thread_queue,
                   websocket_clients, disp, mon, cleanup_wake,
                   assignLog, putBack, evicted, step>>
    /\ reply' = NoReply

(* the loop of register_node's broadcast ends: disconnected clients removed *)
RegBcEnd ==
    /\ bc["reg"].on
    /\ ~BcSizeChanged("reg")
    /\ BcExhausted("reg")
    /\ websocket_clients' = websocket_clients \ bc["reg"].disconnected
    /\ bc' = [bc EXCEPT !["reg"] = BcIdle]
    /\ UNCHANGED <<clock, msec, nodes, node_order, jobs, active_jobs, completed_jobs,
                   priority_queue, collatz_queue, thread_queue, stats,
                   disp, mon, cleanup_wake, assignLog, putBack, evicted, step>>
    /\ reply' = NoReply

(* RuntimeError leaves register_node: the request fails, the node stays *)
RegBcRaise ==
    /\ bc["reg"].on
    /\ BcSizeChanged("reg")
    /\ bc' = [bc EXCEPT !["reg"] = BcIdle]
    /\ UNCHANGED <<clock, msec, nodes, node_order, jobs, active_jobs, completed_jobs,
                   priority_queue, collatz_queue, thread_queue, stats,
                   websocket_clients, disp, mon, cleanup_wake,
                   assignLog, putBack, evicted, step>>
    /\ reply' = NoReply

heartbeat_registers(n, load_score) ==
    /\ nodes' = [Put(nodes, n, IF n \in DOMAIN nodes THEN nodes[n]
                               ELSE NewNode(n, FALSE, clock))
                   EXCEPT ![n].last_heartbeat = clock,
                          ![n].status = "online",
                          ![n].load_score = load_score]
    /\ reply' = Answer(n, json_response("acknowledged", 200))
    /\ UNCHANGED <<clock, msec, node_order, jobs, active_jobs, completed_jobs,
                   priority_queue, collatz_queue, thread_queue, stats,
                   websocket_clients, bc, disp, mon, cleanup_wake,
                   assignLog, putBack, evicted, step>>

heartbeat(n, load_score) ==
    /\ IF n \in DOMAIN nodes
       THEN /\ nodes' = [nodes EXCEPT ![n].last_heartbeat = clock,
                                      ![n].status = "online",
                                      ![n].load_score = load_score]
            /\ reply' = Answer(n, json_response("acknowledged", 200))
       ELSE /\ nodes' = nodes
            /\ reply' = Answer(n, json_response("unknown_node", 400))
    /\ UNCHANGED <<clock, msec, node_order, jobs, active_jobs, completed_jobs,
                   priority_queue, collatz_queue, thread_queue, stats,
                   websocket_clients, bc, disp, mon, cleanup_wake,
                   assignLog, putBack, evicted, step>>

(* ms: the milliseconds int(time.time() * 1000) reads past clock *)
submit_job(type, priority, gpu_preferred, ms) ==
    /\ msec' = ms
    /\ LET job_id == JobId(clock + ms, active_jobs)
           job == NewJob(job_id, type, priority, gpu_preferred, clock)
           h == Len(jobs) + 1
       IN  /\ jobs' = Append(jobs, job)
           /\ active_jobs' = Put(active_jobs, job_id, h)
           /\ SetQueues([Queues EXCEPT ![QueueClass(job)] = queue_put(@, h)])
    /\ UNCHANGED <<clock, nodes, node_order, completed_jobs, stats,
                   websocket_clients, bc, disp, mon, cleanup_wake,
                   assignLog, putBack, evicted, step>>
    /\ reply' = NoReply

(* websocket_handler: the client is added before the first send *)
ws_connect(w) ==
    /\ w \notin websocket_clients
    /\ websocket_clients' = websocket_clients \cup {w}
    /\ UNCHANGED <<clock, msec, nodes, node_order, jobs, active_jobs, completed_jobs,
                   priority_queue, collatz_queue, thread_queue, stats,
                   bc, disp, mon, cleanup_wake, assignLog, putBack, evicted, step>>
    /\ reply' = NoReply

(* websocket_handler: the finally clause, when the connection ends *)
ws_disconnect(w) ==
    /\ w \in websocket_clients
    /\ websocket_clients' = websocket_clients \ {w}
    /\ bc' = [c \in Callers |-> [bc[c] EXCEPT !.since = @ \ {w}]]
    /\ UNCHANGED <<clock, msec, nodes, node_order, jobs, active_jobs, completed_jobs,
                   priority_queue, collatz_queue, thread_queue, stats,
                   disp, mon, cleanup_wake, assignLog, putBack, evicted, step>>
    /\ reply' = NoReply

(* time passes: the clock and every sleep and timed wait move by d *)
Pass(d) ==
    /\ clock' = clock + d
    /\ msec' = 0
    /\ disp' = [disp EXCEPT !.timer = Left(@, d)]
    /\ mon' = [mon EXCEPT !.timer = Left(@, d)]
    /\ cleanup_wake' = Left(cleanup_wake, d)
    /\ UNCHANGED <<nodes, node_order, jobs, active_jobs, completed_jobs,
                   priority_queue, collatz_queue, thread_queue, stats,
                   websocket_clients, bc, assignLog, putBack, evicted, step>>
    /\ reply' = NoReply

(* the clock advances by its precision *)
Tick(d) == Advances(clock + d) <= MaxAdvance /\ Pass(d)

-----------------------------------------------------------------------------
(* assign_jobs: the dispatcher task.  disp.pc is the await it is suspended *)
(* in: "waitP", "waitC", "waitT" (the three timed queue waits), "sleep"    *)
(* (poll or recovery sleep), "backoff" (sleep after a put-back), "rpc"     *)
(* (the worker call of assign_job_to_node), "bc" (a send of the broadcast  *)
(* of handle_job_completion or handle_job_failure).                        *)
(* Up to CPython 3.11 wait_for(queue.get(), timeout=0.1) runs queue.get() *)
(* as a task of its own: the dispatcher is suspended before the queue is   *)
(* looked at, also when the queue holds a job.  From 3.12 on it is         *)
(* suspended only when the queue is empty.  Steps of other handlers may    *)
(* fall between two steps of the dispatcher but need not, so the           *)
(* behaviours of both are behaviours of the model.                         *)

DispWaitP == [pc |-> "waitP", job |-> None, timer |-> Timer(QueueWaitMs),
              origin |-> "none"]

DispSleep(pc, seconds) == [pc |-> pc, job |-> None,
                           timer |-> Timer(Ms(seconds)), origin |-> "none"]

(* lines 169-182 and 206-210: the job the queue wait returned is assigned   *)
(* to the selected node, or put back when select_best_node returns None     *)
Dispatch(from) ==
    /\ Queues[from] # <<>>
    /\ LET h == Head(Queues[from])
           job == jobs[h]
           rest == [Queues EXCEPT ![from] = Tail(@)]
           node == select_best_node(job, nodes, node_order)
       IN  IF node # None
           THEN /\ jobs' = [jobs EXCEPT ![h].assigned_node = nodes[node].id,
                                        ![h].status = "assigned",
                                        ![h].assigned_at = clock]
                /\ SetQueues(rest)
                /\ disp' = [pc |-> "rpc", job |-> h, timer |-> 0, origin |-> "none"]
                /\ assignLog' = Append(assignLog, h)
                /\ UNCHANGED putBack
           ELSE /\ SetQueues([rest EXCEPT ![QueueClass(job)] = queue_put(@, h)])
                /\ disp' = DispSleep("backoff", backoff_sleep)
                /\ putBack' = putBack \cup {h}
                /\ UNCHANGED <<jobs, assignLog>>
    /\ UNCHANGED <<clock, msec, nodes, node_order, active_jobs, completed_jobs, stats,
                   websocket_clients, bc, mon, cleanup_wake, evicted, step>>
    /\ reply' = NoReply

TakePriority == disp.pc = "waitP" /\ Dispatch("priority")

TakeCollatz == disp.pc = "waitC" /\ Dispatch("collatz")

TakeThread == disp.pc = "waitT" /\ Dispatch("thread")

(* asyncio.TimeoutError of a wait_for: the queue stayed empty for 0.1 s *)
QueueTimeout ==
    /\ disp.pc \in {"waitP", "waitC", "waitT"}
    /\ disp.timer = 0
    /\ Queues[CASE disp.pc = "waitP" -> "priority"
                [] disp.pc = "waitC" -> "collatz"
                [] OTHER -> "thread"] = <<>>
    /\ disp' = CASE disp.pc = "waitP" -> [disp EXCEPT !.pc = "waitC",
                                                     !.timer = Timer(QueueWaitMs)]
                 [] disp.pc = "waitC" -> [disp EXCEPT !.pc = "waitT",
                                                     !.timer = Timer(QueueWaitMs)]
                 [] OTHER -> DispSleep("sleep", poll_sleep)
    /\ UNCHANGED <<clock, msec, nodes, node_order, jobs, active_jobs, completed_jobs,
                   priority_queue, collatz_queue, thread_queue, stats,
                   websocket_clients, bc, mon, cleanup_wake,
                   assignLog, putBack, evicted, step>>
    /\ reply' = NoReply

(* a sleep of the dispatcher ends; the next iteration starts *)
DispWake ==
    /\ disp.pc \in {"sleep", "backoff"}
    /\ disp.timer = 0
    /\ disp' = DispWaitP
    /\ UNCHANGED <<clock, msec, nodes, node_order, jobs, active_jobs, completed_jobs,
                   priority_queue, collatz_queue, thread_queue, stats,
                   websocket_clients, bc, mon, cleanup_wake,
                   assignLog, putBack, evicted, step>>
    /\ reply' = NoReply

(* what the worker call can yield *)
RpcOutcomes ==
    [kind : {"response"}, status : HttpStatuses, wellformed : BOOLEAN]
    \cup {[kind |-> "error", status |-> 0, wellformed |-> FALSE]}

(* line 223: f"Node returned status {response.status}" *)
StatusError(status) == ErrorText("Node returned status", status)

(* lines 219-227: which handler runs for an outcome of the worker call, and *)
(* where it was called from ("completion": line 221, "failure": line 223,   *)
(* "handler": line 227, the except clause)                                  *)
AfterRpc(S, job_id, o, now) ==
    IF o.kind = "response" /\ o.status = 200
    THEN IF o.wellformed
         THEN LET C == handle_job_completion(S, job_id, now)
              IN  IF C.outcome = "keyerror"
                  THEN [r |-> handle_job_failure(C.store, job_id, Str("'assigned_at'"), now),
                        origin |-> "handler"]
                  ELSE [r |-> C, origin |-> "completion"]
         ELSE [r |-> handle_job_failure(S, job_id, Str("malformed body"), now),
               origin |-> "handler"]
    ELSE IF o.kind = "response"
    THEN [r |-> handle_job_failure(S, job_id, StatusError(o.status), now),
          origin |-> "failure"]
    ELSE [r |-> handle_job_failure(S, job_id, Str("network error"), now),
          origin |-> "handler"]

(* lines 259-263 and 276-280: the message of the handler's broadcast is     *)
(* about the record active_jobs held under job_id                           *)
HandlerEvent(origin, active, job_id) ==
    IF job_id \notin DOMAIN active THEN NoEvent
    ELSE Event(IF origin = "completion" THEN "job_completed" ELSE "job_failed",
               active[job_id])

(* the handler has run; its broadcast starts, or the iteration ends *)
DispBroadcastOrEnd(r, origin, first, event) ==
    IF r.outcome = "done" /\ websocket_clients # {}
    THEN /\ bc' = BcBegin("disp", websocket_clients, first, event)
         /\ disp' = [disp EXCEPT !.pc = "bc", !.origin = origin]
    ELSE /\ bc' = bc
         /\ disp' = DispWaitP

(* the worker call of assign_job_to_node resolves *)
RpcResolve(o, first) ==
    /\ disp.pc = "rpc"
    /\ websocket_clients # {} => BcRoom
    /\ LET job_id == jobs[disp.job].id
           A == AfterRpc(Store, job_id, o, clock)
       IN  /\ SetStore(A.r.store)
           /\ DispBroadcastOrEnd(A.r, A.origin, first,
                                 HandlerEvent(A.origin, active_jobs, job_id))
    /\ UNCHANGED <<clock, msec, node_order, priority_queue, collatz_queue, thread_queue,
                   websocket_clients, mon, cleanup_wake,
                   assignLog, putBack, evicted, step>>
    /\ reply' = NoReply

(* the broadcast of the dispatcher ends normally *)
DispBcEnd ==
    /\ bc["disp"].on
    /\ ~BcSizeChanged("disp")
    /\ BcExhausted("disp")
    /\ websocket_clients' = websocket_clients \ bc["disp"].disconnected
    /\ bc' = [bc EXCEPT !["disp"] = BcIdle]
    /\ disp' = DispWaitP
    /\ UNCHANGED <<clock, msec, nodes, node_order, jobs, active_jobs, completed_jobs,
                   priority_queue, collatz_queue, thread_queue, stats,
                   mon, cleanup_wake, assignLog, putBack, evicted, step>>
    /\ reply' = NoReply

(* RuntimeError out of the broadcast.  Raised under line 221 or 223 it is   *)
(* caught at line 225 and handle_job_failure runs (again); raised under     *)
(* line 227 it reaches the except clause of assign_jobs (line 184).         *)
DispBcRaise(first) ==
    /\ bc["disp"].on
    /\ BcSizeChanged("disp")
    /\ IF disp.origin \in {"completion", "failure"}
       THEN LET F == handle_job_failure(Store, jobs[disp.job].id,
                                        Str("Set changed size during iteration"), clock)
            IN  /\ SetStore(F.store)
                /\ IF F.outcome = "done" /\ websocket_clients # {}
                   THEN /\ bc' = BcBegin("disp", websocket_clients, first,
                                         HandlerEvent("handler", active_jobs,
                                                      jobs[disp.job].id))
                        /\ disp' = [disp EXCEPT !.origin = "handler"]
                   ELSE /\ bc' = [bc EXCEPT !["disp"] = BcIdle]
                        /\ disp' = DispWaitP
       ELSE /\ bc' = [bc EXCEPT !["disp"] = BcIdle]
            /\ disp' = DispSleep("sleep", recovery_sleep)
            /\ UNCHANGED <<jobs, active_jobs, completed_jobs, nodes, stats>>
    /\ UNCHANGED <<clock, msec, node_order, priority_queue, collatz_queue, thread_queue,
                   websocket_clients, mon, cleanup_wake,
                   assignLog, putBack, evicted, step>>
    /\ reply' = NoReply

-----------------------------------------------------------------------------
(* cleanup_old_jobs: one sweep, then sleep(300) *)

OldJobs_late(completed, heap, cutoff_time) ==
    {id \in DOMAIN completed :
        (IF heap[completed[id]].completed_at = NoTime THEN 0
         ELSE heap[completed[id]].completed_at) + Ms(cleanup_sleep) < cutoff_time}

OldJobs(completed, heap, cutoff_time) ==
    {id \in DOMAIN completed :
        (IF heap[completed[id]].completed_at = NoTime THEN 0
         ELSE heap[completed[id]].completed_at) < cutoff_time}

cleanup_old_jobs ==
    /\ cleanup_wake = 0
    /\ LET old_jobs == OldJobs(completed_jobs, jobs, clock - Ms(retention))
       IN  /\ completed_jobs' = Del(completed_jobs, old_jobs)
           /\ evicted' = evicted \cup {completed_jobs[id] : id \in old_jobs}
    /\ cleanup_wake' = Timer(Ms(cleanup_sleep))
    /\ UNCHANGED <<clock, msec, nodes, node_order, jobs, active_jobs,
                   priority_queue, collatz_queue, thread_queue, stats,
                   websocket_clients, bc, disp, mon, assignLog, putBack,
                   step>>
    /\ reply' = NoReply

-----------------------------------------------------------------------------
(* monitor_nodes.  The sweep iterates self.nodes.items() in dict order and  *)
(* suspends in the broadcast of each demotion when a client is connected.   *)
(* The dict iterator raises RuntimeError at its next step when the size of  *)
(* the dict changed.  current_time is read once, before the loop.           *)

MonSleep_unrecovered(seconds) ==
    [pc |-> IF seconds = monitor_recovery_sleep THEN "ended" ELSE "sleep",
     timer |-> Timer(Ms(seconds)), time |-> 0, idx |-> 0, size |-> 0]

MonSleep(seconds) == [pc |-> "sleep", timer |-> Timer(Ms(seconds)),
                      time |-> 0, idx |-> 0, size |-> 0]

Stale_always(node, current_time) == current_time - node.last_heartbeat >= 0

Stale(node, current_time) ==
    current_time - node.last_heartbeat > Ms(timeout_threshold)

(* the loop from position i up to its first suspension or its end *)
RECURSIVE MonRun(_, _, _, _)
MonRun(ns, i, current_time, suspends) ==
    IF i > Len(node_order) THEN [nodes |-> ns, idx |-> i, suspended |-> FALSE]
    ELSE LET n == node_order[i]
         IN  IF Stale(ns[n], current_time) /\ ns[n].status = "online"
             THEN LET ns1 == [ns EXCEPT ![n].status = "offline"]
                  IN  IF suspends
                      THEN [nodes |-> ns1, idx |-> i + 1, suspended |-> TRUE]
                      ELSE MonRun(ns1, i + 1, current_time, suspends)
             ELSE MonRun(ns, i + 1, current_time, suspends)

(* run the loop from position i with the clients as they are after the step *)
MonLoop(i, current_time, size, clients, first) ==
    LET R == MonRun(nodes, i, current_time, clients # {})
    IN  /\ nodes' = R.nodes
        /\ IF R.suspended
           THEN /\ bc' = BcBegin("mon", clients, first,
                                 Event("node_offline", node_order[R.idx - 1]))
                /\ mon' = [pc |-> "bc", timer |-> 0, time |-> current_time,
                           idx |-> R.idx, size |-> size]
                /\ stats' = stats
           ELSE /\ bc' = [bc EXCEPT !["mon"] = BcIdle]
                /\ mon' = MonSleep(monitor_sleep)
                /\ stats' = [stats EXCEPT !.nodes_online = OnlineCount(R.nodes)]

(* a sweep starts *)
MonStart(first) ==
    /\ mon.pc = "sleep"
    /\ mon.timer = 0
    /\ websocket_clients # {} => BcRoom
    /\ MonLoop(1, clock, Len(node_order), websocket_clients, first)
    /\ UNCHANGED <<clock, msec, node_order, jobs, active_jobs, completed_jobs,
                   priority_queue, collatz_queue, thread_queue,
                   websocket_clients, disp, cleanup_wake,
                   assignLog, putBack, evicted, step>>
    /\ reply' = NoReply

(* the broadcast of a demotion ends; the sweep goes on *)
MonBcEnd(first) ==
    /\ bc["mon"].on
    /\ ~BcSizeChanged("mon")
    /\ BcExhausted("mon")
    /\ websocket_clients' = websocket_clients \ bc["mon"].disconnected
    /\ IF Len(node_order) # mon.size
       THEN /\ bc' = [bc EXCEPT !["mon"] = BcIdle]
            /\ mon' = MonSleep(monitor_recovery_sleep)
            /\ UNCHANGED <<nodes, stats>>
       ELSE MonLoop(mon.idx, mon.time, mon.size, websocket_clients', first)
    /\ UNCHANGED <<clock, msec, node_order, jobs, active_jobs, completed_jobs,
                   priority_queue, collatz_queue, thread_queue,
                   disp, cleanup_wake, assignLog, putBack, evicted, step>>
    /\ reply' = NoReply

(* RuntimeError out of the broadcast: the except clause, sleep(60) *)
MonBcRaise ==
    /\ bc["mon"].on
    /\ BcSizeChanged("mon")
    /\ bc' = [bc EXCEPT !["mon"] = BcIdle]
    /\ mon' = MonSleep(monitor_recovery_sleep)
    /\ UNCHANGED <<clock, msec, nodes, node_order, jobs, active_jobs, completed_jobs,
                   priority_queue, collatz_queue, thread_queue, stats,
                   websocket_clients, disp, cleanup_wake,
                   assignLog, putBack, evicted, step>>
    /\ reply' = NoReply

-----------------------------------------------------------------------------
(* __init__ and start_background_tasks *)

InitAt(precision) ==
    /\ step = precision
    /\ clock = 0
    /\ msec = 0
    /\ nodes = <<>>
    /\ node_order = <<>>
    /\ jobs = <<>>
    /\ active_jobs = <<>>
    /\ completed_jobs = <<>>
    /\ priority_queue = <<>>
    /\ collatz_queue = <<>>
    /\ thread_queue = <<>>
    /\ stats = [total_calculations |-> 0, gpu_calculations |-> 0,
                cpu_calculations |-> 0, nodes_online |-> 0]
    /\ websocket_clients = {}
    /\ bc = [c \in Callers |-> BcIdle]
    /\ disp = DispWaitP
    /\ mon = MonSleep(0)
    /\ cleanup_wake = 0
    /\ assignLog = <<>>
    /\ putBack = {}
    /\ evicted = {}
    /\ reply = NoReply

Init == InitAt(ClockStep)

(* Spec: the whole coordinator, with subscribers, and MaxJobs submissions *)
Next ==
    \/ \E n \in NodeIds, g \in BOOLEAN, f \in FirstSends(websocket_clients) :
           register_node(n, g, f)
    \/ \E n \in NodeIds, l \in LoadScores : heartbeat(n, l)
    \/ \E k \in JobKinds, ms \in msec..MaxMsec :
           Len(jobs) < MaxJobs /\ submit_job(k[1], k[2], k[3], ms)
    \/ \E w \in WsIds : ws_connect(w)
    \/ \E w \in WsIds : ws_disconnect(w)
    \/ Tick(step)
    \/ \E c \in Callers, w \in WsIds, ok \in BOOLEAN : BcSend(c, w, ok)
    \/ RegBcEnd
    \/ RegBcRaise
    \/ TakePriority
    \/ TakeCollatz
    \/ TakeThread
    \/ QueueTimeout
    \/ DispWake
    \/ \E o \in RpcOutcomes, f \in FirstSends(websocket_clients) : RpcResolve(o, f)
    \/ DispBcEnd
    \/ \E f \in FirstSends(websocket_clients) : DispBcRaise(f)
    \/ cleanup_old_jobs
    \/ \E f \in FirstSends(websocket_clients) : MonStart(f)
    \/ \E f \in FirstSends(websocket_clients \ bc["mon"].disconnected) : MonBcEnd(f)
    \/ MonBcRaise

Spec == Init /\ [][Next]_vars

(* SpecJobs: the job pipeline with MaxPipelineJobs submissions; no         *)
(* subscriber connects, so every broadcast_update returns at line 335      *)
NoSend == <<None, TRUE>>

NextJobs ==
    \/ \E n \in NodeIds, g \in BOOLEAN : register_node(n, g, NoSend)
    \/ \E n \in NodeIds, l \in LoadScores : heartbeat(n, l)
    \/ \E k \in JobKinds, ms \in msec..MaxMsec :
           Len(jobs) < MaxPipelineJobs /\ submit_job(k[1], k[2], k[3], ms)
    \/ Tick(step)
    \/ TakePriority
    \/ TakeCollatz
    \/ TakeThread
    \/ QueueTimeout
    \/ DispWake
    \/ \E o \in RpcOutcomes : RpcResolve(o, NoSend)
    \/ cleanup_old_jobs
    \/ MonStart(NoSend)

SpecJobs == Init /\ [][NextJobs]_vars

(* SpecBurst: MaxBurstJobs submissions while the clock does not advance:   *)
(* no liveness or retention sweep falls into the burst                     *)
BurstOutcomes == {o \in RpcOutcomes : o.kind = "error" \/ (o.status = 200 /\ o.wellformed)}

NextBurst ==
    \/ \E n \in NodeIds : register_node(n, FALSE, NoSend)
    \/ \E k \in JobKinds, ms \in msec..MaxMsec :
           Len(jobs) < MaxBurstJobs /\ submit_job(k[1], k[2], k[3], ms)
    \/ TakePriority
    \/ TakeCollatz
    \/ TakeThread
    \/ QueueTimeout
    \/ DispWake
    \/ \E o \in BurstOutcomes : RpcResolve(o, NoSend)

SpecBurst == Init /\ [][NextBurst]_vars

(* SpecBurstMon: the burst of SpecBurst with the liveness monitor running   *)
(* and a clock that advances: a node may go offline while the burst is      *)
(* dispatched                                                               *)
NextBurstMon ==
    \/ \E n \in NodeIds : register_node(n, FALSE, NoSend)
    \/ \E k \in JobKinds :
           Len(jobs) < MaxBurstJobs /\ submit_job(k[1], k[2], k[3], msec)
    \/ TakePriority
    \/ TakeCollatz
    \/ TakeThread
    \/ QueueTimeout
    \/ DispWake
    \/ \E o \in BurstOutcomes : RpcResolve(o, NoSend)
    \/ Tick(step)
    \/ MonStart(NoSend)

SpecBurstMon == Init /\ [][NextBurstMon]_vars

(* SpecMon: the liveness monitor on a clock of the precision of its sleep.  *)
(* Time passes only when the monitor is not due: its sleep(30) ends when    *)
(* 30 s have passed.  A send to a subscriber may take any time.             *)
MonStep == Ms(monitor_sleep)

Elapse ==
    /\ clock + step <= MaxElapse * step
    /\ ~(mon.pc = "sleep" /\ mon.timer = 0)
    /\ Pass(step)

InitMon == InitAt(MonStep)

NextMon ==
    \/ \E n \in FleetIds, f \in FirstSends(websocket_clients) :
           register_node(n, FALSE, f)
    \/ \E n \in FleetIds, l \in LoadScores : heartbeat(n, l)
    \/ \E w \in WsIds : ws_connect(w)
    \/ \E w \in WsIds : ws_disconnect(w)
    \/ Elapse
    \/ \E c \in Callers, w \in WsIds, ok \in BOOLEAN : BcSend(c, w, ok)
    \/ RegBcEnd
    \/ RegBcRaise
    \/ \E f \in FirstSends(websocket_clients) : MonStart(f)
    \/ \E f \in FirstSends(websocket_clients \ bc["mon"].disconnected) : MonBcEnd(f)
    \/ MonBcRaise

SpecMon == InitMon /\ [][NextMon]_vars

(* SpecSelect: node selection over a fleet of GPU and CPU nodes of          *)
(* different load.  One step of the clock takes a node that sent no         *)
(* heartbeat past the liveness threshold.                                   *)
SelectStep == Ms(timeout_threshold) + Ms(monitor_sleep)

InitSelect == InitAt(SelectStep)

NextSelect ==
    \/ \E n \in FleetIds, g \in BOOLEAN : register_node(n, g, NoSend)
    \/ \E n \in FleetIds, l \in FleetLoads : heartbeat(n, l)
    \/ \E k \in JobKinds, ms \in msec..MaxMsec :
           Len(jobs) < MaxJobs /\ submit_job(k[1], k[2], k[3], ms)
    \/ Tick(step)
    \/ TakePriority
    \/ TakeCollatz
    \/ TakeThread
    \/ QueueTimeout
    \/ DispWake
    \/ \E o \in BurstOutcomes : RpcResolve(o, NoSend)
    \/ MonStart(NoSend)

SpecSelect == InitSelect /\ [][NextSelect]_vars

(* SpecRpc: one job at a time against a worker that may answer with any of  *)
(* WideStatuses                                                             *)
WideOutcomes ==
    [kind : {"response"}, status : WideStatuses, wellformed : BOOLEAN]
    \cup {[kind |-> "error", status |-> 0, wellformed |-> FALSE]}

NextRpc ==
    \/ \E n \in NodeIds, g \in BOOLEAN : register_node(n, g, NoSend)
    \/ \E n \in NodeIds, l \in LoadScores : heartbeat(n, l)
    \/ \E k \in JobKinds, ms \in msec..MaxMsec :
           Len(jobs) < MaxJobs /\ submit_job(k[1], k[2], k[3], ms)
    \/ Tick(step)
    \/ TakePriority
    \/ TakeCollatz
    \/ TakeThread
    \/ QueueTimeout
    \/ DispWake
    \/ \E o \in WideOutcomes : RpcResolve(o, NoSend)
    \/ cleanup_old_jobs
    \/ MonStart(NoSend)

SpecRpc == Init /\ [][NextRpc]_vars

(* SpecSweep: the retention sweeper on a clock of the precision of its      *)
(* sleep.  Time passes only when the sweeper is not due: its sleep(300)     *)
(* ends when 300 s have passed; and only while the worker call is within    *)
(* its deadline, ClientTimeout(total=300).  The requests arrive during the  *)
(* first MaxAdvance steps of the clock.                                     *)
SweepStep == Ms(cleanup_sleep)

ElapseSweep ==
    /\ clock + step <= MaxSweeps * step
    /\ cleanup_wake # 0
    /\ disp.pc = "rpc" => clock < jobs[disp.job].assigned_at + Ms(rpc_timeout)
    /\ Pass(step)

InitSweep == InitAt(SweepStep)

NextSweep ==
    \/ \E n \in NodeIds, g \in BOOLEAN :
           Advances(clock) <= MaxAdvance /\ register_node(n, g, NoSend)
    \/ \E k \in JobKinds, ms \in msec..MaxMsec :
           /\ Advances(clock) <= MaxAdvance
           /\ Len(jobs) < MaxJobs
           /\ submit_job(k[1], k[2], k[3], ms)
    \/ ElapseSweep
    \/ TakePriority
    \/ TakeCollatz
    \/ TakeThread
    \/ QueueTimeout
    \/ DispWake
    \/ \E o \in BurstOutcomes : RpcResolve(o, NoSend)
    \/ cleanup_old_jobs

SpecSweep == InitSweep /\ [][NextSweep]_vars

(* SpecStall: a slow subscriber.  send_str to it never returns, so no       *)
(* broadcast gets past its first send: the steps that resume a broadcast    *)
(* are not steps of this specification.  The event loop runs every task     *)
(* that is ready, the worker call ends within its timeout, time passes and  *)
(* the node keeps sending heartbeats: these steps are weakly fair.          *)
SlowClients == {1}

NextStall ==
    \/ \E n \in NodeIds, f \in FirstSends(websocket_clients) :
           register_node(n, FALSE, f)
    \/ \E n \in NodeIds, l \in FleetLoads : heartbeat(n, l)
    \/ \E k \in JobKinds :
           Len(jobs) < MaxPipelineJobs /\ submit_job(k[1], k[2], k[3], msec)
    \/ \E w \in SlowClients : ws_connect(w)
    \/ Tick(step)
    \/ TakePriority
    \/ TakeCollatz
    \/ TakeThread
    \/ QueueTimeout
    \/ DispWake
    \/ \E o \in BurstOutcomes, f \in FirstSends(websocket_clients) : RpcResolve(o, f)
    \/ \E f \in FirstSends(websocket_clients) : MonStart(f)

FairStall ==
    /\ WF_vars(\E n \in NodeIds, l \in FleetLoads : heartbeat(n, l))
    /\ WF_vars(Tick(step))
    /\ WF_vars(TakePriority)
    /\ WF_vars(TakeCollatz)
    /\ WF_vars(TakeThread)
    /\ WF_vars(QueueTimeout)
    /\ WF_vars(DispWake)
    /\ WF_vars(\E o \in BurstOutcomes, f \in FirstSends(websocket_clients) :
                   RpcResolve(o, f))
    /\ WF_vars(\E f \in FirstSends(websocket_clients) : MonStart(f))

SpecStall == Init /\ [][NextStall]_vars /\ FairStall

(* SpecRecover: the three loops with subscribers that come and go while a   *)
(* broadcast is suspended, so that broadcast_update raises inside the        *)
(* monitor's sweep and inside the dispatcher's handlers.  Nodes register and *)
(* jobs are submitted before the clock advances; every send returns.  The    *)
(* event loop runs a task whose await has ended, and the worker call ends    *)
(* within its timeout: the steps of the monitor, of the dispatcher and the   *)
(* end of the worker call are weakly fair.                                   *)
RecoverKind == <<"thread", "normal", TRUE>>

FirstOk(clients) == {f \in FirstSends(clients) : f[2]}

MonitorTask ==
    \/ \E f \in FirstOk(websocket_clients) : MonStart(f)
    \/ \E w \in WsIds : BcSend("mon", w, TRUE)
    \/ \E f \in FirstOk(websocket_clients) : MonBcEnd(f)
    \/ MonBcRaise

(* only thread-class jobs are submitted: the waits on the priority and the  *)
(* collatz queue always end in their timeout                                 *)
DispatcherTask ==
    \/ TakeThread
    \/ QueueTimeout
    \/ DispWake
    \/ \E w \in WsIds : BcSend("disp", w, TRUE)
    \/ DispBcEnd
    \/ \E f \in FirstOk(websocket_clients) : DispBcRaise(f)

WorkerCall ==
    \E o \in BurstOutcomes, f \in FirstOk(websocket_clients) : RpcResolve(o, f)

NextRecover ==
    \/ \E n \in FleetIds :
           /\ clock = 0 /\ websocket_clients = {} /\ n \notin DOMAIN nodes
           /\ register_node(n, FALSE, NoSend)
    \/ /\ clock = 0 /\ Len(jobs) < MaxPipelineJobs
       /\ submit_job(RecoverKind[1], RecoverKind[2], RecoverKind[3], msec)
    \/ /\ Cardinality(websocket_clients) < MaxClients
       /\ ws_connect(Cardinality(websocket_clients) + 1)
    \/ ws_disconnect(Cardinality(websocket_clients))
    \/ Tick(step)
    \/ MonitorTask
    \/ DispatcherTask
    \/ WorkerCall
    \/ cleanup_old_jobs

FairRecover ==
    /\ WF_vars(MonitorTask)
    /\ WF_vars(DispatcherTask)
    /\ WF_vars(WorkerCall)

SpecRecover == Init /\ [][NextRecover]_vars /\ FairRecover

-----------------------------------------------------------------------------
(* Properties *)

Handles == 1..Len(jobs)

Assigned(h) == h \in Range(assignLog)

AssignedBefore(a, b) == Assigned(a) /\ (Assigned(b) => IndexOf(assignLog, a) < IndexOf(assignLog, b))

EvictedIds == {jobs[h].id : h \in evicted}

CompletedRecords == {id \in DOMAIN completed_jobs :
                        jobs[completed_jobs[id]].status = "completed"}

(* C1: every submitted job id that the retention sweeper has not evicted is *)
(* a key of exactly one of active_jobs and completed_jobs.                  *)
JobInExactlyOneMap ==
    \A h \in Handles :
        jobs[h].id \notin EvictedIds =>
            (jobs[h].id \in DOMAIN active_jobs) # (jobs[h].id \in DOMAIN completed_jobs)

(* C2: when the dispatcher takes a job from the collatz queue the priority  *)
(* queue is empty, and when it takes one from the thread queue the priority *)
(* and collatz queues are empty.                                            *)
StrictClassOrder ==
    [][/\ (disp.pc = "waitC" /\ disp'.pc \in {"rpc", "backoff"})
            => priority_queue = <<>>
       /\ (disp.pc = "waitT" /\ disp'.pc \in {"rpc", "backoff"})
            => (priority_queue = <<>> /\ collatz_queue = <<>>)]_vars

(* C3: with one online worker and nothing assigned yet, a thread job, a     *)
(* collatz job and a high-priority job submitted in the order t1, c1, p1 or *)
(* t1, p1, c1 are assigned in the order p1, c1, t1: the first of the three  *)
(* to be assigned is p1.                                                    *)
BurstQueued ==
    /\ Len(jobs) = 3
    /\ assignLog = <<>>
    /\ putBack = {}
    /\ QueueClass(jobs[1]) = "thread"
    /\ {QueueClass(jobs[2]), QueueClass(jobs[3])} = {"collatz", "priority"}
    /\ DOMAIN nodes = {1}
    /\ nodes[1].status = "online"

PriorityMonotonicity ==
    [][(BurstQueued /\ assignLog' # <<>>)
          => QueueClass(jobs[assignLog'[1]]) = "priority"]_vars

StatusOrder ==
    [][\A h \in Handles :
          jobs'[h].status # jobs[h].status =>
              <<jobs[h].status, jobs'[h].status>> \in
                  {<<"queued", "assigned">>, <<"assigned", "completed">>,
                   <<"assigned", "failed">>}]_vars

(* C6: no step changes a field of a record whose status is completed or     *)
(* failed.                                                                  *)
TerminalImmutable ==
    [][\A h \in Handles :
          jobs[h].status \in {"completed", "failed"} => jobs'[h] = jobs[h]]_vars

(* C7: any two submissions receive different job ids. *)
UniqueJobIds ==
    \A a, b \in Handles : a # b => jobs[a].id # jobs[b].id

(* C8: gpu_calculations + cpu_calculations = total_calculations. *)
StatsSplit ==
    stats.gpu_calculations + stats.cpu_calculations = stats.total_calculations

StatsSplitWitness ==
    /\ stats.gpu_calculations = 1
    /\ stats.cpu_calculations = 1
    /\ \A h \in Handles : jobs[h].gpu_preferred

(* C9: total_calculations is the number of completed records in             *)
(* completed_jobs plus the number of completed records the retention        *)
(* sweeper evicted.                                                         *)
TotalMatchesCompleted ==
    stats.total_calculations =
        Cardinality(CompletedRecords)
        + Cardinality({h \in evicted : jobs[h].status = "completed"})

(* C10: after every step that adds a node or changes a node's status,       *)
(* stats.nodes_online is the number of online nodes.                        *)
NodeStatusChanged ==
    \E n \in DOMAIN nodes' :
        n \notin DOMAIN nodes \/ nodes'[n].status # nodes[n].status

NodesOnlineFresh ==
    [][NodeStatusChanged => stats'.nodes_online = OnlineCount(nodes')]_vars

(* C11: at the end of every liveness sweep, every online node has a        *)
(* last_heartbeat no older than the liveness timeout at the time the sweep  *)
(* read.  A sweep ends when the monitor goes to sleep out of a broadcast or *)
(* after a demotion.                                                        *)
SweepEnds ==
    /\ mon'.pc = "sleep"
    /\ \/ mon.pc = "bc"
       \/ \E n \in DOMAIN nodes :
              nodes[n].status = "online" /\ nodes'[n].status = "offline"

SweepTime == IF mon.pc = "bc" THEN mon.time ELSE clock

SweepLeavesNoStaleOnline ==
    [][SweepEnds =>
          \A n \in DOMAIN nodes' :
              nodes'[n].status = "online" => ~Stale(nodes'[n], SweepTime)]_vars

(* C12: a node is offline no later than liveness timeout + sweep period    *)
(* (60 s + 30 s) after its last heartbeat.                                  *)
BoundedDemotion ==
    \A n \in DOMAIN nodes :
        nodes[n].status = "online" =>
            clock - nodes[n].last_heartbeat <= Ms(timeout_threshold) + Ms(monitor_sleep)

(* C13: a heartbeat for a node id that is not registered is answered 400   *)
(* unknown_node and changes nothing; a heartbeat is acknowledged only for a *)
(* registered node, and no heartbeat adds a node record.                    *)
Observable == <<clock, msec, nodes, node_order, jobs, active_jobs, completed_jobs,
                priority_queue, collatz_queue, thread_queue, stats,
                websocket_clients, bc, disp, mon, cleanup_wake>>

UnknownHeartbeatRejected ==
    [][reply' # NoReply =>
          IF reply'.node_id \in DOMAIN nodes
          THEN /\ reply'.response = json_response("acknowledged", 200)
               /\ DOMAIN nodes' = DOMAIN nodes
               /\ nodes'[reply'.node_id].last_heartbeat = clock
          ELSE /\ reply'.response = json_response("unknown_node", 400)
               /\ UNCHANGED Observable]_vars

UnknownHeartbeatWitness ==
    /\ reply.response = json_response("unknown_node", 400)
    /\ reply.node_id \notin DOMAIN nodes
    /\ DOMAIN nodes # {}

(* C14: registering a node id again leaves exactly one record for the id,  *)
(* holding the fields of the latest payload, and each call sends            *)
(* node_registered to every subscriber that stays connected during the call.*)
OneRecordPerNode ==
    /\ Len(node_order) = Cardinality(DOMAIN nodes)
    /\ \A i \in 1..Len(node_order) : node_order[i] \in DOMAIN nodes
    /\ \A i, j \in 1..Len(node_order) : node_order[i] = node_order[j] => i = j

RegistrationBegins == ~bc["reg"].on /\ bc'["reg"].on

RegistrationEnds == bc["reg"].on /\ ~bc'["reg"].on

IdempotentRegistration ==
    [][/\ OneRecordPerNode'
       /\ RegistrationBegins =>
              LET n == bc'["reg"].event.subject
              IN  \E gpu_enabled \in BOOLEAN :
                      nodes'[n] = NewNode(n, gpu_enabled, clock)
       /\ RegistrationEnds =>
              bc["reg"].since \subseteq bc["reg"].visited]_vars

(* C15: the dispatcher puts a job back exactly when no node is online;     *)
(* otherwise it assigns the job to an online node of least load_score among *)
(* the online GPU nodes when the job prefers a GPU and one is online, and   *)
(* among all online nodes otherwise.                                        *)
Online == {n \in DOMAIN nodes : nodes[n].status = "online"}

OnlineGpu == {n \in Online : nodes[n].gpu_enabled}

Selecting == disp.pc \in {"waitP", "waitC", "waitT"}

SelectionContract ==
    [][/\ (Selecting /\ disp'.pc = "backoff") => Online = {}
       /\ (Selecting /\ disp'.pc = "rpc") =>
              LET job == jobs'[disp'.job]
                  n == job.assigned_node
                  pool == IF job.gpu_preferred /\ OnlineGpu # {}
                          THEN OnlineGpu ELSE Online
              IN  /\ n \in pool
                  /\ \A m \in pool : nodes[n].load_score <= nodes[m].load_score]_vars

SelectionWitness ==
    /\ disp.pc = "rpc"
    /\ jobs[disp.job].gpu_preferred
    /\ LET n == jobs[disp.job].assigned_node
       IN  /\ nodes[n].gpu_enabled
           /\ nodes[n].last_heartbeat = jobs[disp.job].assigned_at
           /\ \E m \in Online : /\ ~nodes[m].gpu_enabled
                                 /\ nodes[m].load_score < nodes[n].load_score
                                 /\ nodes[m].last_heartbeat <= jobs[disp.job].assigned_at

(* C16: when the worker call of an assigned job fails, the job ends failed *)
(* with an error text, the calculation counters and every node record stay  *)
(* as they were, and job_failed is emitted for the job once: only in the    *)
(* step in which the job becomes failed.                                    *)
BcBegins(c) ==
    /\ bc'[c].on
    /\ ~bc[c].on \/ bc'[c].event # bc[c].event \/ bc'[c].size0 # bc[c].size0

Counters(st) == <<st.total_calculations, st.gpu_calculations, st.cpu_calculations>>

WorkerFailureContract ==
    [][/\ (disp.pc = "rpc" /\ disp'.pc # "rpc") =>
              jobs'[disp.job].status \in {"completed", "failed"}
       /\ \A h \in Handles :
              (jobs[h].status # "failed" /\ jobs'[h].status = "failed") =>
                  /\ jobs'[h].error # NoError
                  /\ Counters(stats') = Counters(stats)
                  /\ nodes' = nodes
                  /\ websocket_clients # {} =>
                         bc'["disp"].event = Event("job_failed", h)
       /\ (BcBegins("disp") /\ bc'["disp"].event.type = "job_failed") =>
              jobs[bc'["disp"].event.subject].status # "failed"]_vars

(* C17: whatever the worker answers to the execute call, the job ends      *)
(* completed exactly when the status is a 2xx and the body is well formed,  *)
(* and failed otherwise.                                                    *)
Success(o) == o.kind = "response" /\ o.status \in 200..299 /\ o.wellformed

OutcomeClassification ==
    disp.pc = "rpc" =>
        \A o \in WideOutcomes :
            LET A == AfterRpc(Store, jobs[disp.job].id, o, clock)
            IN  A.r.store.jobs[disp.job].status =
                    IF Success(o) THEN "completed" ELSE "failed"

(* C18: an event never precedes the state change that produced it.  As    *)
(* stated: whenever an event is sent to a subscriber, the state shows the   *)
(* transition (EventShownAtEverySend).  As the code has it: the state shows *)
(* the transition when the broadcast of the event starts, and every send of *)
(* the event comes with or after that step (EventAfterChange).              *)
Shows(e) ==
    CASE e.type = "node_registered" ->
             e.subject \in DOMAIN nodes /\ nodes[e.subject].status = "online"
      [] e.type = "node_offline" -> nodes[e.subject].status = "offline"
      [] e.type = "job_completed" ->
             /\ jobs[e.subject].status = "completed"
             /\ \E id \in DOMAIN completed_jobs : completed_jobs[id] = e.subject
      [] e.type = "job_failed" -> jobs[e.subject].status = "failed"
      [] OTHER -> FALSE

SendsTo(c) == bc'[c].on /\ (BcBegins(c) \/ bc'[c].visited # bc[c].visited)

EventShownAtEverySend ==
    [][\A c \in Callers : SendsTo(c) => Shows(bc[c].event)']_vars

EventAfterChange ==
    [][\A c \in Callers :
          /\ BcBegins(c) => Shows(bc[c].event)'
          /\ (SendsTo(c) /\ ~BcBegins(c)) =>
                 bc[c].on /\ bc'[c].event = bc[c].event]_vars

EventAfterChangeWitness ==
    /\ bc["disp"].on
    /\ bc["disp"].event.type = "job_completed"
    /\ Shows(bc["disp"].event)
    /\ Cardinality(bc["disp"].visited) = 2

(* C19: when a broadcast ends, every subscriber whose send failed has been *)
(* removed from the subscriber set, and every subscriber that stayed        *)
(* connected during the broadcast is still subscribed and was sent the event.*)
BcEnds(c) == bc[c].on /\ (~bc'[c].on \/ BcBegins(c))

DropOnFailure ==
    [][\A c \in Callers :
          BcEnds(c) =>
              /\ bc[c].disconnected \cap websocket_clients' = {}
              /\ bc[c].since \ bc[c].disconnected \subseteq websocket_clients'
              /\ bc[c].since \subseteq bc[c].visited]_vars

(* C20: emitting an event does not stall the core: while the dispatcher   *)
(* is emitting an event to a slow subscriber, a queued job is still         *)
(* eventually assigned when a node is online; while the monitor is emitting *)
(* one, it still eventually ends its sweep and sleeps until the next.       *)
Queued(h) == h <= Len(jobs) /\ jobs[h].status = "queued"

NoStall ==
    /\ \A h \in 1..MaxPipelineJobs :
           (disp.pc = "bc" /\ Queued(h) /\ Online # {})
           ~> (~Queued(h) \/ Online = {})
    /\ (mon.pc = "bc") ~> (mon.pc = "sleep")

(* C21: a record of completed_jobs is gone once more than the retention    *)
(* and one sweep period have passed since it was completed, and a record    *)
(* the sweeper deleted does not come back.                                  *)
RetentionBound ==
    /\ \A id \in DOMAIN completed_jobs :
           clock <= jobs[completed_jobs[id]].completed_at
                        + Ms(retention) + Ms(cleanup_sleep)
    /\ \A id \in DOMAIN completed_jobs : completed_jobs[id] \notin evicted

RetentionWitness ==
    \E h \in evicted :
        /\ clock = jobs[h].completed_at + Ms(retention) + Ms(cleanup_sleep)
        /\ jobs[h].completed_at > 0

(* C22: for every node, jobs_completed is the number of jobs the node has  *)
(* completed and average_job_time is the mean of their execution times.     *)
CompletedBy(n) ==
    {h \in Handles : jobs[h].status = "completed" /\ jobs[h].assigned_node = n}

RECURSIVE TotalTime(_)
TotalTime(hs) ==
    IF hs = {} THEN 0
    ELSE LET h == CHOOSE x \in hs : TRUE
         IN  jobs[h].execution_time + TotalTime(hs \ {h})

NodeStatistics ==
    \A n \in DOMAIN nodes :
        /\ nodes[n].jobs_completed = Cardinality(CompletedBy(n))
        /\ nodes[n].average_job_time =
               IF CompletedBy(n) = {} THEN Rat(0, 1)
               ELSE Rat(TotalTime(CompletedBy(n)), Cardinality(CompletedBy(n)))

(* C23: each completion adds one to gpu_calculations when the node that    *)
(* ran the job is gpu_enabled at that time, and one to cpu_calculations     *)
(* otherwise, whatever the job's gpu_preferred.                             *)
Completes(h) == jobs[h].status # "completed" /\ jobs'[h].status = "completed"

AttributionByNode ==
    [][\A h \in Handles :
          Completes(h) =>
              IF nodes[jobs'[h].assigned_node].gpu_enabled
              THEN /\ stats'.gpu_calculations = stats.gpu_calculations + 1
                   /\ stats'.cpu_calculations = stats.cpu_calculations
              ELSE /\ stats'.cpu_calculations = stats.cpu_calculations + 1
                   /\ stats'.gpu_calculations = stats.gpu_calculations]_vars

(* C24: a failed job stays failed and a key of active_jobs, is not put     *)
(* into a queue and is not sent to a worker; a step of the retention        *)
(* sweeper that deletes records changes neither active_jobs nor a job.      *)
InQueues(Q) == Range(Q.priority) \cup Range(Q.collatz) \cup Range(Q.thread)

IsActive(active, h) == \E id \in DOMAIN active : active[id] = h

FailedIsFinal ==
    [][/\ \A h \in Handles :
              jobs[h].status = "failed" =>
                  /\ jobs'[h].status = "failed"
                  /\ IsActive(active_jobs', h)
                  /\ h \in InQueues(Queues)' => h \in InQueues(Queues)
                  /\ ~(disp.pc # "rpc" /\ disp'.pc = "rpc" /\ disp'.job = h)
       /\ evicted' # evicted => (active_jobs' = active_jobs /\ jobs' = jobs)]_vars

(* C25: every queued job is exactly once in the queues, in the queue of    *)
(* its class; every queue entry is a queued, unassigned record of           *)
(* active_jobs; a job put back goes to the tail of the queue it came from.  *)
QueueNames == {"priority", "collatz", "thread"}

Occurrences(Q, h) ==
    Cardinality({<<q, i>> \in QueueNames \X (1..Len(jobs)) :
                    i <= Len(Q[q]) /\ Q[q][i] = h})

QueueMembershipNow ==
    /\ \A h \in Handles :
           jobs[h].status = "queued" =>
               /\ Occurrences(Queues, h) = 1
               /\ h \in Range(Queues[QueueClass(jobs[h])])
    /\ \A h \in InQueues(Queues) :
           /\ IsActive(active_jobs, h)
           /\ jobs[h].status = "queued"
           /\ jobs[h].assigned_node = None

PutBackToTail ==
    (Selecting /\ disp'.pc = "backoff") =>
        \E q \in QueueNames :
            /\ Queues[q] # <<>>
            /\ Queues' = [Queues EXCEPT ![q] = Append(Tail(@), Head(@))]

QueueMembership == [][QueueMembershipNow' /\ PutBackToTail]_vars

(* C26: a node goes from online to offline only in a step of the liveness *)
(* monitor, taken when its last heartbeat is more than 60 s old; a step     *)
(* that adds a node or renews its last_heartbeat (register_node, heartbeat) *)
(* leaves the node online.                                                  *)
(* a step that writes only what monitor_nodes writes: a node's status, to  *)
(* offline; stats.nodes_online; its own position and broadcast              *)
MonitorStep ==
    /\ UNCHANGED <<clock, msec, node_order, jobs, active_jobs, completed_jobs,
                   priority_queue, collatz_queue, thread_queue, disp,
                   cleanup_wake>>
    /\ bc'["reg"] = bc["reg"] /\ bc'["disp"] = bc["disp"]
    /\ reply' = NoReply
    /\ Counters(stats') = Counters(stats)
    /\ DOMAIN nodes' = DOMAIN nodes
    /\ \A m \in DOMAIN nodes :
           nodes'[m] \in {nodes[m], [nodes[m] EXCEPT !.status = "offline"]}

OnlyMonitorDemotes ==
    [][/\ \A n \in DOMAIN nodes :
              (nodes[n].status = "online" /\ nodes'[n].status = "offline") =>
                  /\ MonitorStep
                  /\ clock - nodes[n].last_heartbeat > Ms(timeout_threshold)
       /\ \A n \in DOMAIN nodes' :
              (n \notin DOMAIN nodes
                  \/ nodes'[n].last_heartbeat # nodes[n].last_heartbeat) =>
                  nodes'[n].status = "online"
       /\ (reply' # NoReply /\ reply'.node_id \in DOMAIN nodes) =>
              nodes'[reply'.node_id].status = "online"]_vars

DemotionWitness ==
    \E n \in DOMAIN nodes :
        /\ nodes[n].status = "offline"
        /\ bc["mon"].on
        /\ bc["mon"].event = Event("node_offline", n)
        /\ stats.total_calculations > 0

(* C27: a step that sets a node offline changes no job record, map or     *)
(* queue; a job in flight on an offline node stays assigned to it and in    *)
(* active_jobs until its worker call resolves, and the outcome is then      *)
(* recorded as it would be with the node online.                            *)
Demotes == \E n \in DOMAIN nodes :
               nodes[n].status = "online" /\ nodes'[n].status = "offline"

InFlightOffline ==
    /\ disp.pc = "rpc"
    /\ nodes[jobs[disp.job].assigned_node].status = "offline"

RecordedAsOnline ==
    LET h == disp.job
        n == jobs[h].assigned_node
        S == [Store EXCEPT !.nodes[n].status = "online"]
    IN  \E o \in RpcOutcomes \cup WideOutcomes :
            LET A == AfterRpc(S, jobs[h].id, o, clock).r.store
            IN  /\ jobs' = A.jobs
                /\ active_jobs' = A.active
                /\ completed_jobs' = A.completed
                /\ stats' = A.stats
                /\ nodes' = [A.nodes EXCEPT ![n].status = "offline"]
                /\ jobs'[h].status \in {"completed", "failed"}

DemotionLeavesJobs ==
    [][/\ Demotes => UNCHANGED <<jobs, active_jobs, completed_jobs,
                                 priority_queue, collatz_queue, thread_queue>>
       /\ InFlightOffline =>
              /\ jobs[disp.job].status = "assigned"
              /\ IsActive(active_jobs, disp.job)
              /\ IF disp'.pc = "rpc"
                 THEN /\ jobs'[disp.job] = jobs[disp.job]
                      /\ IsActive(active_jobs', disp.job)
                 ELSE RecordedAsOnline]_vars

DemotedInFlightWitness ==
    /\ InFlightOffline
    /\ jobs[disp.job].status = "assigned"
    /\ IsActive(active_jobs, disp.job)
    /\ clock - nodes[jobs[disp.job].assigned_node].last_heartbeat > Ms(timeout_threshold)

(* C28: the background loops survive an exception raised inside an          *)
(* iteration: the step in which the broadcast raises leaves the monitor, and *)
(* the dispatcher when the exception reaches assign_jobs, in its recovery    *)
(* sleep; and further iterations run: a stale online node is eventually      *)
(* demoted and a queued job is eventually dispatched while a node is online. *)
StaleOnline(n) ==
    /\ n \in DOMAIN nodes
    /\ nodes[n].status = "online"
    /\ Stale(nodes[n], clock)

MonRaises ==
    /\ bc["mon"].on
    /\ BcSizeChanged("mon") \/ Len(node_order) # mon.size
    /\ mon' # mon

DispRaises ==
    /\ bc["disp"].on
    /\ BcSizeChanged("disp")
    /\ disp.origin = "handler"
    /\ disp' # disp

LoopsSurvive ==
    /\ [][/\ MonRaises => mon' = MonSleep(monitor_recovery_sleep)
          /\ DispRaises => disp' = DispSleep("sleep", recovery_sleep)]_vars
    /\ \A n \in FleetIds : StaleOnline(n) ~> ~StaleOnline(n)
    /\ \A h \in 1..MaxPipelineJobs :
           (Queued(h) /\ Online # {}) ~> (~Queued(h) \/ Online = {})

(* the monitor raised after it demoted one of two stale nodes, and the       *)
(* dispatcher's second broadcast for a failed job is about to raise          *)
RaisedWitness ==
    /\ mon.pc = "sleep" /\ ~bc["mon"].on
    /\ \E a, b \in DOMAIN nodes :
           /\ nodes[a].status = "offline"
           /\ nodes[a].last_heartbeat = nodes[b].last_heartbeat
           /\ StaleOnline(b)
    /\ bc["disp"].on /\ BcSizeChanged("disp") /\ disp.origin = "handler"
    /\ \E h \in Handles : jobs[h].status = "queued"

(* C29: the dispatcher is serial: at most one job has status assigned, it  *)
(* is the job whose worker call is unresolved, and a job becomes assigned    *)
(* only when every job assigned before it is completed or failed.            *)
AssignedNow == {h \in Handles : jobs[h].status = "assigned"}

Settled(h) == h <= Len(jobs) /\ jobs[h].status \in {"completed", "failed"}

QueuedStaysQueued ==
    [][\A h \in Handles :
          (Online = {} /\ jobs[h].status = "queued"
               /\ h \in InQueues(Queues)) =>
              /\ jobs'[h].status = "queued"
              /\ h \in Range(priority_queue') \cup Range(collatz_queue')
                         \cup Range(thread_queue')]_vars

EventualDispatch ==
    /\ QueuedStaysQueued
    /\ <>[](Online # {}) =>
           \A h \in 1..MaxPipelineJobs : (h <= Len(jobs)) ~> Settled(h)

====
